---------------------------- MODULE Spec2Model ----------------------------
(***************************************************************************)
(* A model of the BAGS69 presale platform: the presale ledger              *)
(* (lib/presale-db.ts), the join, refund/withdraw, launch and finalize     *)
(* routes, and the launch orchestrator (lib/launch-presale.ts).            *)
(*                                                                         *)
(* One presale is modelled.  Requests run on a single JavaScript event     *)
(* loop: the code between two network awaits of a handler runs without     *)
(* interruption, and handlers interleave at their network awaits (chain    *)
(* reads, chain writes, launch-service calls).  Each action below is one   *)
(* such uninterrupted stretch.  Consecutive network awaits with no access  *)
(* to the ledger between them are one suspension point.                    *)
(*                                                                         *)
(* Amounts are whole units of the smallest contribution step; the code's   *)
(* floating-point sums and quotients are modelled by exact arithmetic.     *)
(***************************************************************************)
EXTENDS Integers, Sequences, FiniteSets, TLC

\* ------------------------------------------------------------------ bounds
NumReq == 2        \* requests that can be in flight at once
MaxStarts == 3     \* requests ever started
MaxTarget == 2     \* largest target_participants drawn at creation
MaxAmount == 2     \* max_sol_per_wallet of the presale, in units

\* --------------------------------------------------------------- constants
CREATOR_ALLOCATION_BPS == 500
TOTAL_BPS == 10000
MIN_PARTICIPANTS == 1

Slots == 1..NumReq
Wallets == {"w1", "w2"}
Creator == "creator"
\* The signatures of the deposit transactions a join can present, and the one
\* of the deposit a wallet made itself
Signatures == {"s1", "s2"}
DepositSignature(w) == IF w = "w1" THEN "s1" ELSE "s2"
None == "none"

VARIABLES
    presale,        \* the Presale record of the ledger
    participants,   \* db.participants, in insertion (join) order
    expired,        \* TRUE once now > presale.expires_at
    req,            \* per request slot: the handler's position and locals
    resp,           \* the response the last step sent, NoResult if it sent none
    started,        \* requests started so far
    payouts,        \* per participant record: settlement transfers confirmed on chain
    file,           \* the database file: the cache as it was last written
    saveTimeout     \* TRUE while the debounce timer of savePresaleDb is pending

vars == <<presale, participants, expired, req, resp, started, payouts, file, saveTimeout>>

\* ------------------------------------------------------------ pure helpers
RECURSIVE SumBps(_)
SumBps(s) == IF s = <<>> THEN 0 ELSE Head(s).bps + SumBps(Tail(s))

RECURSIVE SumAmounts(_)
SumAmounts(s) == IF s = <<>> THEN 0 ELSE Head(s).amount_sol + SumAmounts(Tail(s))

\* Array.prototype.find over the indices S that pass its test: the first, 0 if none
FirstIndex(S) == IF S = {} THEN 0 ELSE CHOOSE i \in S : \A j \in S : i <= j

Unresolved(p) == ~p.refunded /\ ~p.withdrawn
Counted(p) == p.confirmed /\ ~p.refunded /\ ~p.withdrawn

\* ------------------------------------------------------ lib/presale-db.ts
\* savePresaleDb: the 500 ms timer is set again; the file is written when it fires
savePresaleDb == saveTimeout' = TRUE /\ file' = file

\* A step that calls neither savePresaleDb nor forceSavePresaleDb
NoSave == UNCHANGED <<file, saveTimeout>>

\* forceSavePresaleDb: the cache, as this step leaves it, is written at once;
\* a pending timer stays pending
forceSavePresaleDb == file' = [presale |-> presale', participants |-> participants']

updatePresaleStatus(ps, status, additionalData) ==
    [f \in DOMAIN ps |->
        IF f = "status" THEN status
        ELSE IF f \in DOMAIN additionalData THEN additionalData[f]
        ELSE ps[f]]

checkExpiredPresales(ps, isExpired) ==
    IF ps.status = "active" /\ isExpired THEN [ps EXCEPT !.status = "failed"] ELSE ps

getPresaleParticipants(parts) == SelectSeq(parts, Counted)

getParticipantByWallet(parts, wallet) ==
    FirstIndex({i \in DOMAIN parts : parts[i].wallet = wallet /\ Unresolved(parts[i])})

\* Mutant: the record is pushed without looking for an existing one
addParticipant_NoExistingCheck(parts, wallet, amount, tx_signature) ==
    Append(parts, [wallet |-> wallet, amount_sol |-> amount,
                   tx_signature |-> tx_signature,
                   fee_share_bps |-> 0, confirmed |-> FALSE,
                   refunded |-> FALSE, withdrawn |-> FALSE])

\* Mutant: a refunded or withdrawn record of the wallet also blocks a new one
addParticipant_RejectsResolved(parts, wallet, amount, tx_signature) ==
    IF \E i \in DOMAIN parts : parts[i].wallet = wallet
    THEN parts
    ELSE Append(parts, [wallet |-> wallet, amount_sol |-> amount,
                        tx_signature |-> tx_signature,
                        fee_share_bps |-> 0, confirmed |-> FALSE,
                        refunded |-> FALSE, withdrawn |-> FALSE])

\* addParticipant: the participants after the call; unchanged when it returns null
addParticipant(parts, wallet, amount, tx_signature) ==
    IF getParticipantByWallet(parts, wallet) # 0
    THEN parts
    ELSE Append(parts, [wallet |-> wallet, amount_sol |-> amount,
                        tx_signature |-> tx_signature,
                        fee_share_bps |-> 0, confirmed |-> FALSE,
                        refunded |-> FALSE, withdrawn |-> FALSE])

addParticipantReturnsNull(parts, wallet) == getParticipantByWallet(parts, wallet) # 0

confirmIndex(parts, wallet) ==
    FirstIndex({i \in DOMAIN parts :
                   parts[i].wallet = wallet /\ ~parts[i].confirmed /\ Unresolved(parts[i])})

\* confirmParticipant: [presale, participants] after the call (unchanged on null)
confirmParticipant(ps, parts, wallet) ==
    LET i == confirmIndex(parts, wallet)
    IN  IF i = 0 THEN [presale |-> ps, participants |-> parts]
        ELSE [presale |-> [ps EXCEPT !.total_sol = @ + parts[i].amount_sol,
                                     !.participant_count = @ + 1],
              participants |-> [parts EXCEPT ![i].confirmed = TRUE]]

\* Mutant: the record is looked up without the !p.withdrawn filter
markParticipantRefunded_IgnoresWithdrawn(ps, parts, wallet) ==
    LET i == FirstIndex({k \in DOMAIN parts : parts[k].wallet = wallet /\ ~parts[k].refunded})
    IN  IF i = 0 THEN [presale |-> ps, participants |-> parts]
        ELSE [presale |-> IF parts[i].confirmed
                          THEN [ps EXCEPT !.total_sol = @ - parts[i].amount_sol,
                                          !.participant_count = @ - 1]
                          ELSE ps,
              participants |-> [parts EXCEPT ![i].refunded = TRUE]]

markParticipantRefunded(ps, parts, wallet) ==
    LET i == getParticipantByWallet(parts, wallet)
    IN  IF i = 0 THEN [presale |-> ps, participants |-> parts]
        ELSE [presale |-> IF parts[i].confirmed
                          THEN [ps EXCEPT !.total_sol = @ - parts[i].amount_sol,
                                          !.participant_count = @ - 1]
                          ELSE ps,
              participants |-> [parts EXCEPT ![i].refunded = TRUE]]

\* Mutant: the withdrawal takes the amount off total_sol but keeps participant_count
markParticipantWithdrawn_KeepsCount(ps, parts, wallet) ==
    LET i == getParticipantByWallet(parts, wallet)
    IN  IF i = 0 THEN [presale |-> ps, participants |-> parts]
        ELSE [presale |-> IF parts[i].confirmed
                          THEN [ps EXCEPT !.total_sol = @ - parts[i].amount_sol]
                          ELSE ps,
              participants |-> [parts EXCEPT ![i].withdrawn = TRUE]]

markParticipantWithdrawn(ps, parts, wallet) ==
    LET i == getParticipantByWallet(parts, wallet)
    IN  IF i = 0 THEN [presale |-> ps, participants |-> parts]
        ELSE [presale |-> IF parts[i].confirmed
                          THEN [ps EXCEPT !.total_sol = @ - parts[i].amount_sol,
                                          !.participant_count = @ - 1]
                          ELSE ps,
              participants |-> [parts EXCEPT ![i].withdrawn = TRUE]]

\* Mutant: Math.round in place of Math.floor
floorShare_Rounds(amount, totalSol, remainingBps) ==
    (2 * amount * remainingBps + totalSol) \div (2 * totalSol)

\* Amounts are whole numbers, which a double holds exactly, but the quotient
\* p.amount_sol / totalSol is rounded to a double before it is multiplied by
\* 9500, and the product is rounded again.  These are the pairs <<amount, total>>
\* with total up to 170 whose exact share is a whole number and whose double
\* product falls just below it (41 / 50 * 9500 is 7789.999999999999).
DoubleRoundsBelow ==
    {<<41, 50>>, <<53, 76>>, <<7, 95>>, <<14, 95>>, <<28, 95>>, <<56, 95>>, <<63, 95>>,
     <<73, 95>>, <<41, 100>>, <<57, 100>>, <<69, 100>>, <<82, 100>>, <<43, 125>>,
     <<51, 125>>, <<71, 125>>, <<86, 125>>, <<87, 125>>, <<102, 125>>, <<123, 150>>,
     <<106, 152>>}

\* Math.floor((p.amount_sol / totalSol) * remainingBps), with remainingBps 9500
floorShare(amount, totalSol, remainingBps) ==
    IF <<amount, totalSol>> \in DoubleRoundsBelow
    THEN (amount * remainingBps) \div totalSol - 1
    ELSE (amount * remainingBps) \div totalSol

\* Mutant: the rounding remainder goes to the first entry of the list
calculateFeeShares_RemainderToFirst(ps, parts) ==
    LET active == getPresaleParticipants(parts)
        remainingBps == TOTAL_BPS - CREATOR_ALLOCATION_BPS
        bpsOf(p) == floorShare(p.amount_sol, ps.total_sol, remainingBps)
        shares == [k \in 1..Len(active) |-> [wallet |-> active[k].wallet, bps |-> bpsOf(active[k])]]
        withCreator == <<[wallet |-> ps.creator_wallet, bps |-> CREATOR_ALLOCATION_BPS]>> \o shares
        totalAssignedBps == SumBps(withCreator)
    IN  IF active = <<>>
        THEN [feeShares |-> <<>>, participants |-> parts]
        ELSE [feeShares |->
                 IF totalAssignedBps < TOTAL_BPS /\ Len(withCreator) > 1
                 THEN [withCreator EXCEPT ![1].bps = @ + (TOTAL_BPS - totalAssignedBps)]
                 ELSE withCreator,
              participants |->
                 [i \in DOMAIN parts |->
                    IF Counted(parts[i])
                    THEN [parts[i] EXCEPT !.fee_share_bps = bpsOf(parts[i])]
                    ELSE parts[i]]]

\* calculateFeeShares: the returned list and the participants with fee_share_bps stored
calculateFeeShares(ps, parts) ==
    LET active == getPresaleParticipants(parts)
        remainingBps == TOTAL_BPS - CREATOR_ALLOCATION_BPS
        bpsOf(p) == floorShare(p.amount_sol, ps.total_sol, remainingBps)
        shares == [k \in 1..Len(active) |-> [wallet |-> active[k].wallet, bps |-> bpsOf(active[k])]]
        withCreator == <<[wallet |-> ps.creator_wallet, bps |-> CREATOR_ALLOCATION_BPS]>> \o shares
        totalAssignedBps == SumBps(withCreator)
        last == Len(withCreator)
    IN  IF active = <<>>
        THEN [feeShares |-> <<>>, participants |-> parts]
        ELSE [feeShares |->
                 IF totalAssignedBps < TOTAL_BPS /\ Len(withCreator) > 1
                 THEN [withCreator EXCEPT ![last].bps = @ + (TOTAL_BPS - totalAssignedBps)]
                 ELSE withCreator,
              participants |->
                 [i \in DOMAIN parts |->
                    IF Counted(parts[i])
                    THEN [parts[i] EXCEPT !.fee_share_bps = bpsOf(parts[i])]
                    ELSE parts[i]]]


\* --------------------------------------------------------- request records
NoData == [f \in {} |-> 0]

\* The LaunchResult of a launchPresaleToken call; NoLaunch when none returned
NoLaunch == [called |-> FALSE, success |-> FALSE, error |-> "", step |-> ""]
LaunchResult(success, error, step) ==
    [called |-> TRUE, success |-> success, error |-> error, step |-> step]

\* A response: the route, its success and error fields, the wallet of a
\* settlement request answered before its first chain call, how the deposit
\* verification of a join ended in this step (what the handler logs), and the
\* LaunchResult of the launchPresaleToken call the handler made, if it made one;
\* and the warning the step logged, if it logged one
NoResult == [op |-> "none", success |-> FALSE, error |-> "", wallet |-> None,
             verification |-> "", launchResult |-> NoLaunch, warning |-> ""]

IdleReq == [op |-> "idle", pc |-> "idle", wallet |-> None, amount |-> 0,
            tx_signature |-> None,
            isActivePresale |-> FALSE, part |-> 0, feeShares |-> <<>>,
            tokenMint |-> 0, meteoraConfigKey |-> 0]

Result(op, success, error) ==
    [op |-> op, success |-> success, error |-> error, wallet |-> None,
     verification |-> "", launchResult |-> NoLaunch, warning |-> ""]

\* What a stretch of a handler ends in: the request goes on from a suspension
\* point, or it returns a response and its slot is free again.
Continue(slot) == [slot |-> slot, result |-> NoResult]
Finish(res) == [slot |-> IdleReq, result |-> res]

\* The stretch began with the end of a deposit verification
Verified(out, outcome) == [out EXCEPT !.result.verification = outcome]

\* The stretch logged a warning
Warned(out, warning) == [out EXCEPT !.result.warning = warning]

Deliver(r, out) ==
    /\ req' = [req EXCEPT ![r] = out.slot]
    /\ resp' = out.result

\* A request arrives and is served in the first free slot.  Only requests that
\* reach a suspension point occupy a slot and count as started; one rejected
\* before its first network await answers at once.
FreeSlot(r) == req[r].pc = "idle" /\ \A q \in Slots : q < r => req[q].pc # "idle"

Arrive(r, out) ==
    /\ FreeSlot(r)
    /\ started < MaxStarts
    /\ started' = IF out.slot.pc = "idle" THEN started ELSE started + 1
    /\ Deliver(r, out)

\* --------------------------------------------- lib/launch-presale.ts, entry
\* Mutant: the total of the fee shares is not compared with 10000
LaunchEntry_NoTotalCheck(ps, parts, force) ==
    LET calc == calculateFeeShares(ps, parts)
    IN  IF ps.status = "launched"
        THEN [outcome |-> "already_launched", participants |-> parts, feeShares |-> <<>>]
        ELSE IF ~force /\ ps.participant_count < ps.target_participants
        THEN [outcome |-> "not_full", participants |-> parts, feeShares |-> <<>>]
        ELSE IF getPresaleParticipants(parts) = <<>>
        THEN [outcome |-> "no_participants", participants |-> parts, feeShares |-> <<>>]
        ELSE [outcome |-> "proceed", participants |-> calc.participants,
              feeShares |-> calc.feeShares]

\* Mutant: force also skips the already-launched check
LaunchEntry_ForceSkipsLaunched(ps, parts, force) ==
    LET calc == calculateFeeShares(ps, parts)
    IN  IF ~force /\ ps.status = "launched"
        THEN [outcome |-> "already_launched", participants |-> parts, feeShares |-> <<>>]
        ELSE IF ~force /\ ps.participant_count < ps.target_participants
        THEN [outcome |-> "not_full", participants |-> parts, feeShares |-> <<>>]
        ELSE IF getPresaleParticipants(parts) = <<>>
        THEN [outcome |-> "no_participants", participants |-> parts, feeShares |-> <<>>]
        ELSE IF SumBps(calc.feeShares) # TOTAL_BPS
        THEN [outcome |-> "fee_share_total", participants |-> calc.participants,
              feeShares |-> calc.feeShares]
        ELSE [outcome |-> "proceed", participants |-> calc.participants,
              feeShares |-> calc.feeShares]

\* launchPresaleToken from its first line to its first network await:
\* the checks, getPresaleParticipants and calculateFeeShares.
LaunchEntry(ps, parts, force) ==
    LET calc == calculateFeeShares(ps, parts)
    IN  IF ps.status = "launched"
        THEN [outcome |-> "already_launched", participants |-> parts, feeShares |-> <<>>]
        ELSE IF ~force /\ ps.participant_count < ps.target_participants
        THEN [outcome |-> "not_full", participants |-> parts, feeShares |-> <<>>]
        ELSE IF getPresaleParticipants(parts) = <<>>
        THEN [outcome |-> "no_participants", participants |-> parts, feeShares |-> <<>>]
        ELSE IF SumBps(calc.feeShares) # TOTAL_BPS
        THEN [outcome |-> "fee_share_total", participants |-> calc.participants,
              feeShares |-> calc.feeShares]
        ELSE [outcome |-> "proceed", participants |-> calc.participants,
              feeShares |-> calc.feeShares]

\* Mutant: the join answers with the success of its auto-launch
LaunchDone_JoinFailsWithLaunch(rq, lres) ==
    IF rq.op = "join"
    THEN Finish([Result("join", lres.success, lres.error) EXCEPT !.launchResult = lres])
    ELSE Finish([Result("launch", lres.success, lres.error) EXCEPT !.launchResult = lres])

\* How a finished launchPresaleToken ends the request that called it: the launch
\* route answers with the result's success, error and step; the join route
\* answers success, with launch_triggered = launchResult.success.
LaunchDone(rq, lres) ==
    IF rq.op = "join"
    THEN Finish([Result("join", TRUE, "") EXCEPT !.launchResult = lres])
    ELSE Finish([Result("launch", lres.success, lres.error) EXCEPT !.launchResult = lres])

\* The request that called launchPresaleToken, after the entry part.
AfterLaunchEntry(rq, entry) ==
    IF entry.outcome = "proceed"
    THEN Continue([rq EXCEPT !.pc = "metadata", !.feeShares = entry.feeShares])
    ELSE LaunchDone(rq, LaunchResult(FALSE, entry.outcome, ""))

\* ------------------------------------------------------------------- Init
Init ==
    /\ \E target \in MIN_PARTICIPANTS..MaxTarget :
         presale = [status |-> "active", creator_wallet |-> Creator,
                    min_sol_per_wallet |-> 1, max_sol_per_wallet |-> MaxAmount,
                    target_participants |-> target,
                    total_sol |-> 0, participant_count |-> 0,
                    token_mint |-> 0, meteora_config_key |-> 0, launch_signature |-> 0]
    /\ participants = <<>>
    /\ expired = FALSE
    /\ req = [r \in Slots |-> IdleReq]
    /\ resp = NoResult
    /\ started = 0
    /\ payouts = [i \in 1..MaxStarts |-> 0]
    /\ file = [presale |-> presale, participants |-> participants]
    /\ saveTimeout = FALSE

\* now passes presale.expires_at
Tick ==
    /\ ~expired
    /\ expired' = TRUE
    /\ resp' = NoResult
    /\ NoSave
    /\ UNCHANGED <<presale, participants, req, payouts, started>>

\* GET /api/presale and GET /api/presale/[id]: checkExpiredPresales, then reads
ReadPresales ==
    /\ presale' = checkExpiredPresales(presale, expired)
    /\ IF presale.status = "active" /\ expired THEN savePresaleDb ELSE NoSave
    /\ resp' = NoResult
    /\ UNCHANGED <<participants, expired, req, payouts, started>>

\* ------------------------------------- app/api/presale/[id]/join/route.ts
\* Mutant: the creator check is left out
JoinCheck_NoCreatorCheck(ps, parts, wallet, amount) ==
    IF amount = 0 THEN "missing_fields"
    ELSE IF ps.status # "active" THEN "not_active"
    ELSE IF expired THEN "expired"
    ELSE IF ps.participant_count >= ps.target_participants THEN "full"
    ELSE IF getParticipantByWallet(parts, wallet) # 0
            /\ parts[getParticipantByWallet(parts, wallet)].confirmed THEN "already_joined"
    ELSE IF amount < ps.min_sol_per_wallet THEN "below_min"
    ELSE IF amount > ps.max_sol_per_wallet THEN "above_max"
    ELSE "verify"

\* POST up to the first chain read: the precondition checks
JoinCheck(ps, parts, wallet, amount) ==
    IF amount = 0 THEN "missing_fields"
    ELSE IF ps.status # "active" THEN "not_active"
    ELSE IF expired THEN "expired"
    ELSE IF ps.participant_count >= ps.target_participants THEN "full"
    ELSE IF wallet = ps.creator_wallet THEN "creator"
    ELSE IF getParticipantByWallet(parts, wallet) # 0
            /\ parts[getParticipantByWallet(parts, wallet)].confirmed THEN "already_joined"
    ELSE IF amount < ps.min_sol_per_wallet THEN "below_min"
    ELSE IF amount > ps.max_sol_per_wallet THEN "above_max"
    ELSE "verify"

JoinStart(r, wallet, amount, tx_signature) ==
    LET ps == IF amount = 0 THEN presale ELSE checkExpiredPresales(presale, expired)
        check == JoinCheck(ps, participants, wallet, amount)
    IN  /\ presale' = IF check = "expired"
                      THEN updatePresaleStatus(ps, "failed", NoData)
                      ELSE ps
        /\ Arrive(r, IF check = "verify"
                     THEN Continue([IdleReq EXCEPT !.op = "join", !.pc = "verify",
                                                   !.wallet = wallet, !.amount = amount,
                                                   !.tx_signature = tx_signature])
                     ELSE Finish(Result("join", FALSE, check)))
        /\ IF ps # presale \/ check = "expired" THEN savePresaleDb ELSE NoSave
        /\ UNCHANGED <<participants, expired, payouts>>

\* The outcomes of the deposit verification (getTransaction, one retry after 3 s,
\* the balance comparison).  "error" is the chain reader throwing.
VerifyOutcomes == {"verified", "not_found", "failed_on_chain", "not_to_escrow",
                   "amount_mismatch", "error"}

\* Verification failed: the join is rejected
JoinRejected(r, outcome) ==
    /\ req[r].op = "join" /\ req[r].pc = "verify"
    /\ outcome \in VerifyOutcomes \ {"verified", "error"}
    /\ Deliver(r, Verified(Finish(Result("join", FALSE, outcome)), outcome))
    /\ NoSave
    /\ UNCHANGED <<presale, participants, expired, payouts, started>>

\* Mutant: the join that fills the presale answers without calling launchPresaleToken
JoinConfirm_NoAutoLaunch(r, outcome) ==
    LET w == req[r].wallet
        isNull == addParticipantReturnsNull(participants, w)
        added == addParticipant(participants, w, req[r].amount, req[r].tx_signature)
        conf == confirmParticipant(presale, added, w)
        confNull == confirmIndex(added, w) = 0
    IN  /\ req[r].op = "join" /\ req[r].pc = "verify"
        /\ outcome \in {"verified", "error"}
        /\ IF isNull
           THEN /\ Deliver(r, Verified(Finish(Result("join", FALSE, "add_failed")), outcome))
                /\ UNCHANGED <<presale, participants>>
           ELSE IF confNull
           THEN /\ Deliver(r, Verified(Finish(Result("join", FALSE, "confirm_failed")), outcome))
                /\ participants' = added
                /\ UNCHANGED presale
           ELSE /\ presale' = conf.presale
                /\ participants' = conf.participants
                /\ Deliver(r, Verified(Finish(Result("join", TRUE, "")), outcome))
        /\ IF isNull THEN NoSave ELSE savePresaleDb
        /\ UNCHANGED <<expired, payouts, started>>

\* Verification passed, or threw and was caught: addParticipant, confirmParticipant,
\* and the auto-launch up to its first network await
JoinConfirm(r, outcome) ==
    LET w == req[r].wallet
        isNull == addParticipantReturnsNull(participants, w)
        added == addParticipant(participants, w, req[r].amount, req[r].tx_signature)
        conf == confirmParticipant(presale, added, w)
        confNull == confirmIndex(added, w) = 0
        updatedPresale == conf.presale
        isFull == updatedPresale.participant_count >= updatedPresale.target_participants
        entry == LaunchEntry(updatedPresale, conf.participants, FALSE)
    IN  /\ req[r].op = "join" /\ req[r].pc = "verify"
        /\ outcome \in {"verified", "error"}
        /\ IF isNull
           THEN /\ Deliver(r, Verified(Finish(Result("join", FALSE, "add_failed")), outcome))
                /\ UNCHANGED <<presale, participants>>
           ELSE IF confNull
           THEN /\ Deliver(r, Verified(Finish(Result("join", FALSE, "confirm_failed")), outcome))
                /\ participants' = added
                /\ UNCHANGED presale
           ELSE IF isFull /\ updatedPresale.status = "active"
           THEN /\ presale' = updatedPresale
                /\ participants' = entry.participants
                /\ Deliver(r, Verified(AfterLaunchEntry(req[r], entry), outcome))
           ELSE /\ presale' = updatedPresale
                /\ participants' = conf.participants
                /\ Deliver(r, Verified(Finish(Result("join", TRUE, "")), outcome))
        /\ IF isNull THEN NoSave ELSE savePresaleDb
        /\ UNCHANGED <<expired, payouts, started>>

\* ------------------------------------ app/api/presale/[id]/launch/route.ts
\* POST: launchPresaleToken(id, force) up to its first network await
LaunchStart(r, force) ==
    LET entry == LaunchEntry(presale, participants, force)
    IN  /\ participants' = entry.participants
        /\ Arrive(r, AfterLaunchEntry([IdleReq EXCEPT !.op = "launch"], entry))
        /\ IF entry.outcome \in {"proceed", "fee_share_total"} THEN savePresaleDb ELSE NoSave
        /\ UNCHANGED <<presale, expired, payouts>>

\* --------------------------------------- lib/launch-presale.ts, the steps
\* What a launch-service call can do: answer with the data, answer with a
\* failure, or throw (network error, unparsable body).
ServiceOutcomes == {"ok", "failed", "throws"}

\* The outer catch of launchPresaleToken: the error message, no step
CaughtResult == LaunchResult(FALSE, "exception", "")

\* Mutant: a failed create-token-info call marks the presale failed
LaunchMetadata_MarksFailed(r, outcome) ==
    /\ req[r].pc = "metadata"
    /\ outcome \in ServiceOutcomes
    /\ Deliver(r, CASE outcome = "ok" ->
                         Continue([req[r] EXCEPT !.pc = "config", !.tokenMint = r])
                    [] outcome = "failed" ->
                         LaunchDone(req[r], LaunchResult(FALSE, "metadata_failed", "metadata"))
                    [] OTHER -> LaunchDone(req[r], CaughtResult))
    /\ presale' = IF outcome = "ok" THEN presale
                  ELSE updatePresaleStatus(presale, "failed", NoData)
    /\ IF outcome = "ok" THEN NoSave ELSE savePresaleDb
    /\ UNCHANGED <<participants, expired, payouts, started>>

\* STEP 1: create-token-info answers
LaunchMetadata(r, outcome) ==
    /\ req[r].pc = "metadata"
    /\ outcome \in ServiceOutcomes
    /\ Deliver(r, CASE outcome = "ok" ->
                         Continue([req[r] EXCEPT !.pc = "config", !.tokenMint = r])
                    [] outcome = "failed" ->
                         LaunchDone(req[r], LaunchResult(FALSE, "metadata_failed", "metadata"))
                    [] OTHER -> LaunchDone(req[r], CaughtResult))
    /\ NoSave
    /\ UNCHANGED <<presale, participants, expired, payouts, started>>

\* What a fee-share/config call and the config transactions of its answer can
\* do.  The transactions of a successful answer are signed and sent one by one,
\* each in its own try/catch: "ok" has them confirmed (or there are none),
\* "ok_txs_failed" has none of them confirmed, which is logged as a warning.
ConfigOutcomes == ServiceOutcomes \cup {"ok_txs_failed"}

\* After a successful answer and its config transactions: on to STEP 3
ConfigDone(rq, outcome, key) ==
    IF outcome = "ok_txs_failed"
    THEN Warned(Continue([rq EXCEPT !.pc = "launch_tx", !.meteoraConfigKey = key]),
                "no_config_tx_succeeded")
    ELSE Continue([rq EXCEPT !.pc = "launch_tx", !.meteoraConfigKey = key])

\* STEP 2: fee-share/config answers the request that carries the partner fields
LaunchConfig(r, outcome) ==
    /\ req[r].pc = "config"
    /\ outcome \in ConfigOutcomes
    /\ Deliver(r, CASE outcome \in {"ok", "ok_txs_failed"} -> ConfigDone(req[r], outcome, r)
                    [] outcome = "failed" -> Continue([req[r] EXCEPT !.pc = "config_basic"])
                    [] OTHER -> LaunchDone(req[r], CaughtResult))
    /\ NoSave
    /\ UNCHANGED <<presale, participants, expired, payouts, started>>

\* Mutant: a rejected second request is followed by the full request again
LaunchConfigBasic_RetriesFull(r, outcome) ==
    /\ req[r].pc = "config_basic"
    /\ outcome \in ConfigOutcomes
    /\ Deliver(r, CASE outcome \in {"ok", "ok_txs_failed"} -> ConfigDone(req[r], outcome, r)
                    [] outcome = "failed" -> Continue([req[r] EXCEPT !.pc = "config"])
                    [] OTHER -> LaunchDone(req[r], CaughtResult))
    /\ NoSave
    /\ UNCHANGED <<presale, participants, expired, payouts, started>>

\* STEP 2, second request without the partner fields
LaunchConfigBasic(r, outcome) ==
    /\ req[r].pc = "config_basic"
    /\ outcome \in ConfigOutcomes
    /\ Deliver(r, CASE outcome \in {"ok", "ok_txs_failed"} -> ConfigDone(req[r], outcome, r)
                    [] outcome = "failed" ->
                         LaunchDone(req[r], LaunchResult(FALSE, "fee_share_failed", "fee_share"))
                    [] OTHER -> LaunchDone(req[r], CaughtResult))
    /\ NoSave
    /\ UNCHANGED <<presale, participants, expired, payouts, started>>

\* The fields a failed launch step writes back with status 'active'
PartialIds(rq) ==
    [token_mint |-> rq.tokenMint, meteora_config_key |-> rq.meteoraConfigKey]

\* STEP 3: create-launch-transaction answers
LaunchTx(r, outcome) ==
    /\ req[r].pc = "launch_tx"
    /\ outcome \in ServiceOutcomes
    /\ presale' = IF outcome = "failed"
                  THEN updatePresaleStatus(presale, "active", PartialIds(req[r]))
                  ELSE presale
    /\ Deliver(r, CASE outcome = "ok" -> Continue([req[r] EXCEPT !.pc = "launch_send"])
                    [] outcome = "failed" ->
                         LaunchDone(req[r], LaunchResult(FALSE, "launch_tx_failed", "launch_tx"))
                    [] OTHER -> LaunchDone(req[r], CaughtResult))
    /\ IF outcome = "failed" THEN savePresaleDb ELSE NoSave
    /\ UNCHANGED <<participants, expired, payouts, started>>

\* What a chain write can do: confirm, or throw
SendOutcomes == {"confirmed", "throws"}

\* STEP 3, signAndSendTransaction of the launch transaction, then STEP 4
LaunchSend(r, outcome) ==
    /\ req[r].pc = "launch_send"
    /\ outcome \in SendOutcomes
    /\ presale' = IF outcome = "confirmed"
                  THEN updatePresaleStatus(presale, "launched",
                          [token_mint |-> req[r].tokenMint,
                           meteora_config_key |-> req[r].meteoraConfigKey,
                           launch_signature |-> r])
                  ELSE updatePresaleStatus(presale, "active", PartialIds(req[r]))
    /\ Deliver(r, IF outcome = "confirmed"
                  THEN LaunchDone(req[r], LaunchResult(TRUE, "", ""))
                  ELSE LaunchDone(req[r], LaunchResult(FALSE, "launch_send_failed", "launch_send")))
    /\ UNCHANGED <<participants, expired, payouts, started>>
    /\ IF outcome = "confirmed"
       THEN saveTimeout' = TRUE /\ forceSavePresaleDb
       ELSE savePresaleDb

\* ----------------------------------- app/api/presale/[id]/refund/route.ts
\* Mutant: an active status counts as an active presale whatever the expiry
RefundStart_IgnoresExpiry(r, wallet) ==
    LET isActivePresale == presale.status = "active"
        isFailedPresale == presale.status \in {"failed", "refunding"}
                           \/ (presale.status = "active" /\ expired)
        ps == IF presale.status = "active" /\ expired
              THEN updatePresaleStatus(presale, "failed", NoData)
              ELSE presale
        i == getParticipantByWallet(participants, wallet)
        check == IF ~isActivePresale /\ ~isFailedPresale THEN "wrong_status"
                 ELSE IF i = 0 THEN "not_participant"
                 ELSE IF participants[i].refunded THEN "already_refunded"
                 ELSE IF participants[i].withdrawn THEN "already_withdrawn"
                 ELSE IF ~participants[i].confirmed THEN "not_confirmed"
                 ELSE "settle"
    IN  /\ presale' = ps
        /\ Arrive(r, IF check = "settle"
                     THEN Continue([IdleReq EXCEPT !.op = "refund", !.pc = "settle",
                                       !.wallet = wallet,
                                       !.amount = participants[i].amount_sol, !.part = i,
                                       !.isActivePresale = isActivePresale])
                     ELSE Finish([Result("refund", FALSE, check) EXCEPT !.wallet = wallet]))
        /\ IF presale.status = "active" /\ expired THEN savePresaleDb ELSE NoSave
        /\ UNCHANGED <<participants, expired, payouts>>

\* POST up to the first chain call: which kind of settlement, and for whom
RefundStart(r, wallet) ==
    LET isActivePresale == presale.status = "active" /\ ~expired
        isFailedPresale == presale.status \in {"failed", "refunding"}
                           \/ (presale.status = "active" /\ expired)
        ps == IF presale.status = "active" /\ expired
              THEN updatePresaleStatus(presale, "failed", NoData)
              ELSE presale
        i == getParticipantByWallet(participants, wallet)
        check == IF ~isActivePresale /\ ~isFailedPresale THEN "wrong_status"
                 ELSE IF i = 0 THEN "not_participant"
                 ELSE IF participants[i].refunded THEN "already_refunded"
                 ELSE IF participants[i].withdrawn THEN "already_withdrawn"
                 ELSE IF ~participants[i].confirmed THEN "not_confirmed"
                 ELSE "settle"
    IN  /\ presale' = ps
        /\ Arrive(r, IF check = "settle"
                     THEN Continue([IdleReq EXCEPT !.op = "refund", !.pc = "settle",
                                       !.wallet = wallet,
                                       !.amount = participants[i].amount_sol, !.part = i,
                                       !.isActivePresale = isActivePresale])
                     ELSE Finish([Result("refund", FALSE, check) EXCEPT !.wallet = wallet]))
        /\ IF presale.status = "active" /\ expired THEN savePresaleDb ELSE NoSave
        /\ UNCHANGED <<participants, expired, payouts>>

\* getBalance, then sendAndConfirmTransaction: the escrow cannot cover the
\* transfer, or the transaction throws, or it is confirmed
SettleOutcomes == {"insufficient_escrow", "throws", "confirmed"}

\* Mutant: a transfer that threw is booked like a confirmed one
RefundFailed_MarksOnThrow(r, outcome) ==
    LET marked == IF req[r].isActivePresale
                  THEN markParticipantWithdrawn(presale, participants, req[r].wallet)
                  ELSE markParticipantRefunded(presale, participants, req[r].wallet)
    IN  /\ req[r].op = "refund" /\ req[r].pc = "settle"
        /\ outcome \in SettleOutcomes \ {"confirmed"}
        /\ Deliver(r, Finish(Result("refund", FALSE, outcome)))
        /\ participants' = IF outcome = "throws" THEN marked.participants ELSE participants
        /\ presale' = IF outcome = "throws" THEN marked.presale ELSE presale
        /\ NoSave
        /\ UNCHANGED <<expired, payouts, started>>

RefundFailed(r, outcome) ==
    /\ req[r].op = "refund" /\ req[r].pc = "settle"
    /\ outcome \in SettleOutcomes \ {"confirmed"}
    /\ Deliver(r, Finish(Result("refund", FALSE, outcome)))
    /\ NoSave
    /\ UNCHANGED <<presale, participants, expired, payouts, started>>

\* The transfer is confirmed: markParticipantWithdrawn (active presale), or
\* markParticipantRefunded and the move to 'refunding' (failed presale)
RefundSettled(r) ==
    LET marked == IF req[r].isActivePresale
                  THEN markParticipantWithdrawn(presale, participants, req[r].wallet)
                  ELSE markParticipantRefunded(presale, participants, req[r].wallet)
    IN  /\ req[r].op = "refund" /\ req[r].pc = "settle"
        /\ payouts' = [payouts EXCEPT ![req[r].part] = @ + 1]
        /\ participants' = marked.participants
        /\ presale' = IF ~req[r].isActivePresale /\ marked.presale.status = "failed"
                      THEN updatePresaleStatus(marked.presale, "refunding", NoData)
                      ELSE marked.presale
        /\ Deliver(r, Finish(Result("refund", TRUE,
                                IF req[r].isActivePresale THEN "withdrawal" ELSE "refund")))
        /\ IF \/ getParticipantByWallet(participants, req[r].wallet) # 0
              \/ (~req[r].isActivePresale /\ presale.status = "failed")
           THEN savePresaleDb ELSE NoSave
        /\ UNCHANGED <<expired, started>>

\* ------------------------------- app/api/presale/route.ts, finalize_launch
FinalizeStart(r) ==
    /\ Arrive(r, IF presale.status = "launched"
                 THEN Finish(Result("finalize", FALSE, "already_launched"))
                 ELSE Continue([IdleReq EXCEPT !.op = "finalize", !.pc = "finalize_confirm"]))
    /\ NoSave
    /\ UNCHANGED <<presale, participants, expired, payouts>>

\* confirmTransaction answers: an on-chain error rejects; a confirmation, and
\* also a thrown error, goes on to set the presale launched
FinalizeOutcomes == {"confirmed", "failed_on_chain", "throws"}

FinalizeConfirm(r, outcome) ==
    /\ req[r].pc = "finalize_confirm"
    /\ outcome \in FinalizeOutcomes
    /\ presale' = IF outcome = "failed_on_chain" THEN presale
                  ELSE updatePresaleStatus(presale, "launched", [launch_signature |-> r])
    /\ Deliver(r, IF outcome = "failed_on_chain"
                  THEN Finish(Result("finalize", FALSE, outcome))
                  ELSE Finish(Result("finalize", TRUE, "")))
    /\ UNCHANGED <<participants, expired, payouts, started>>
    /\ IF outcome = "failed_on_chain"
       THEN NoSave
       ELSE saveTimeout' = TRUE /\ forceSavePresaleDb

\* ------------------------------------------------------------------- Next
Next ==
    \/ Tick
    \/ ReadPresales
    \/ \E r \in Slots, w \in Wallets \cup {Creator}, a \in 0..(MaxAmount + 1) :
         JoinStart(r, w, a, DepositSignature(w))
    \/ \E r \in Slots, o \in VerifyOutcomes : JoinRejected(r, o)
    \/ \E r \in Slots, o \in VerifyOutcomes : JoinConfirm(r, o)
    \/ \E r \in Slots, force \in BOOLEAN : LaunchStart(r, force)
    \/ \E r \in Slots, o \in ServiceOutcomes : LaunchMetadata(r, o)
    \/ \E r \in Slots, o \in ConfigOutcomes : LaunchConfig(r, o)
    \/ \E r \in Slots, o \in ConfigOutcomes : LaunchConfigBasic(r, o)
    \/ \E r \in Slots, o \in ServiceOutcomes : LaunchTx(r, o)
    \/ \E r \in Slots, o \in SendOutcomes : LaunchSend(r, o)
    \/ \E r \in Slots, w \in Wallets : RefundStart(r, w)
    \/ \E r \in Slots, o \in SettleOutcomes : RefundFailed(r, o)
    \/ \E r \in Slots : RefundSettled(r)
    \/ \E r \in Slots : FinalizeStart(r)
    \/ \E r \in Slots, o \in FinalizeOutcomes : FinalizeConfirm(r, o)

Spec == Init /\ [][Next]_vars

\* ------------------------------------------------- creation of a presale
\* In this part presale holds db.presales, the newest first.
MAX_PARTICIPANTS == 68
DEFAULT_PARTICIPANTS == 68
DURATION_OPTIONS == {10, 20, 30}

isValidDuration(minutes) == minutes \in DURATION_OPTIONS

\* Mutant: the duration is added to the creation time as it is, in minutes
createPresale_ExpiresInMinutes(presales, data, now) ==
    LET duration == IF data.duration_minutes = 0 THEN 30 ELSE data.duration_minutes
        targetParticipants == IF data.target_participants = 0 THEN DEFAULT_PARTICIPANTS
                              ELSE data.target_participants
    IN  IF \/ ~isValidDuration(duration)
           \/ targetParticipants < MIN_PARTICIPANTS
           \/ targetParticipants > MAX_PARTICIPANTS
           \/ data.launch_fee_signature = ""
        THEN [threw |-> TRUE, presales |-> presales]
        ELSE [threw |-> FALSE,
              presales |->
                <<[id |-> Len(presales) + 1, creator_wallet |-> data.creator_wallet,
                   min_sol_per_wallet |-> 1, max_sol_per_wallet |-> MaxAmount,
                   target_participants |-> targetParticipants,
                   duration_minutes |-> duration,
                   launch_fee_paid |-> TRUE,
                   launch_fee_signature |-> data.launch_fee_signature,
                   status |-> "active",
                   created_at |-> now, expires_at |-> now + duration,
                   total_sol |-> 0, participant_count |-> 0]>> \o presales]

\* createPresale: whether it threw, and db.presales after the call.  Times are
\* in milliseconds; a missing or zero field takes its default.
createPresale(presales, data, now) ==
    LET duration == IF data.duration_minutes = 0 THEN 30 ELSE data.duration_minutes
        targetParticipants == IF data.target_participants = 0 THEN DEFAULT_PARTICIPANTS
                              ELSE data.target_participants
    IN  IF \/ ~isValidDuration(duration)
           \/ targetParticipants < MIN_PARTICIPANTS
           \/ targetParticipants > MAX_PARTICIPANTS
           \/ data.launch_fee_signature = ""
        THEN [threw |-> TRUE, presales |-> presales]
        ELSE [threw |-> FALSE,
              presales |->
                <<[id |-> Len(presales) + 1, creator_wallet |-> data.creator_wallet,
                   min_sol_per_wallet |-> 1, max_sol_per_wallet |-> MaxAmount,
                   target_participants |-> targetParticipants,
                   duration_minutes |-> duration,
                   launch_fee_paid |-> TRUE,
                   launch_fee_signature |-> data.launch_fee_signature,
                   status |-> "active",
                   created_at |-> now, expires_at |-> now + duration * 60 * 1000,
                   total_sol |-> 0, participant_count |-> 0]>> \o presales]

\* ------------------------------------- app/api/presale/create/route.ts
\* The request bodies: a field that is missing, zero or not a number is 0 (for
\* the numbers) or "" (for the strings)
CreateBodies ==
    [creator_wallet : {"", Creator}, token_symbol : {"", "SYM", "ELEVENCHARS"},
     duration_minutes : {0, 5, 10}, target_participants : {-1, 0, 2, 69},
     launch_fee_signature : {"", "sig"}]

\* parseInt(duration_minutes) || 30
parsedDuration(body) == IF body.duration_minutes = 0 THEN 30 ELSE body.duration_minutes

\* parseInt(target_participants) || PRESALE_CONFIG.DEFAULT_PARTICIPANTS
parsedTarget(body) ==
    IF body.target_participants = 0 THEN DEFAULT_PARTICIPANTS ELSE body.target_participants

\* POST up to the chain read: the validation of the body
CreateCheck(body) ==
    IF body.creator_wallet = "" \/ body.token_symbol = "" THEN "missing_fields"
    ELSE IF body.launch_fee_signature = "" THEN "fee_required"
    ELSE IF ~isValidDuration(parsedDuration(body)) THEN "invalid_duration"
    ELSE IF parsedTarget(body) < MIN_PARTICIPANTS \/ parsedTarget(body) > MAX_PARTICIPANTS
         THEN "invalid_target"
    ELSE IF Len(body.token_symbol) > 10 THEN "symbol_too_long"
    ELSE "verify_fee"

CreateStart(r, body) ==
    LET check == CreateCheck(body)
    IN  /\ Arrive(r, IF check = "verify_fee"
                     THEN Continue([op |-> "create", pc |-> "verify_fee", body |-> body])
                     ELSE Finish(Result("create", FALSE, check)))
        /\ NoSave
        /\ UNCHANGED <<presale, participants, expired, payouts>>

\* What verifyLaunchFeeTransaction answers; "error" is getTransaction throwing,
\* which it catches and reports as not valid
FeeOutcomes == {"valid", "not_found", "tx_failed", "no_launcher", "insufficient",
                "not_from_creator", "error"}

CreateFeeRejected(r, outcome) ==
    /\ req[r].op = "create" /\ req[r].pc = "verify_fee"
    /\ outcome \in FeeOutcomes \ {"valid"}
    /\ Deliver(r, Finish(Result("create", FALSE, outcome)))
    /\ NoSave
    /\ UNCHANGED <<presale, participants, expired, payouts, started>>

\* The instants new Date() can give
CreateTimes == {0, 1}

\* The fee transaction is valid: createPresale with the parsed fields
CreateFeeVerified(r, now) ==
    LET body == req[r].body
        created == createPresale(presale,
                                 [creator_wallet |-> body.creator_wallet,
                                  duration_minutes |-> parsedDuration(body),
                                  target_participants |-> parsedTarget(body),
                                  launch_fee_signature |-> body.launch_fee_signature],
                                 now)
    IN  /\ req[r].op = "create" /\ req[r].pc = "verify_fee"
        /\ now \in CreateTimes
        /\ presale' = created.presales
        /\ Deliver(r, IF created.threw
                      THEN Finish(Result("create", FALSE, "exception"))
                      ELSE Finish(Result("create", TRUE, "")))
        /\ IF created.threw THEN NoSave ELSE savePresaleDb
        /\ UNCHANGED <<participants, expired, payouts, started>>

CreateInit ==
    /\ presale = <<>>
    /\ participants = <<>>
    /\ expired = FALSE
    /\ req = [r \in Slots |-> IdleReq]
    /\ resp = NoResult
    /\ started = 0
    /\ payouts = [i \in 1..MaxStarts |-> 0]
    /\ file = [presale |-> presale, participants |-> participants]
    /\ saveTimeout = FALSE

CreateNext ==
    \/ \E r \in Slots, body \in CreateBodies : CreateStart(r, body)
    \/ \E r \in Slots, o \in FeeOutcomes : CreateFeeRejected(r, o)
    \/ \E r \in Slots, now \in CreateTimes : CreateFeeVerified(r, now)

SpecCreate == CreateInit /\ [][CreateNext]_vars

\* ------------------------------------------- calculateFeeShares on its own
\* The fee allocation applied to a ledger drawn from the presales the code can
\* hold: up to FeeMaxParticipants records, each counted, refunded or withdrawn,
\* with total_sol and participant_count as the joins and settlements leave them.
FeeMaxParticipants == 3
FeeMaxAmount == 4

FeeWallet(i) == "w" \o ToString(i)

\* The amounts of the records: the small ones, and two whose shares of a total
\* of 50 are whole numbers
FeeAmounts == (1..FeeMaxAmount) \cup {9, 41}

\* max_sol_per_wallet of a presale that took these amounts
FeeMaxSol == CHOOSE a \in FeeAmounts : \A b \in FeeAmounts : b <= a

FeeRecords(i) ==
    {[wallet |-> FeeWallet(i), amount_sol |-> a, tx_signature |-> "s" \o ToString(i),
      fee_share_bps |-> 0, confirmed |-> TRUE,
      refunded |-> f = "refunded", withdrawn |-> f = "withdrawn"] :
        a \in FeeAmounts, f \in {"counted", "refunded", "withdrawn"}}

FeeLedgers ==
    UNION {{parts \in [1..n -> UNION {FeeRecords(i) : i \in 1..n}] :
               \A i \in 1..n : parts[i].wallet = FeeWallet(i)} : n \in 1..FeeMaxParticipants}

FeeInit ==
    /\ participants \in FeeLedgers
    /\ presale = [status |-> "active", creator_wallet |-> Creator,
                  min_sol_per_wallet |-> 1, max_sol_per_wallet |-> FeeMaxSol,
                  target_participants |-> Len(participants),
                  total_sol |-> SumAmounts(getPresaleParticipants(participants)),
                  participant_count |-> Len(getPresaleParticipants(participants)),
                  token_mint |-> 0, meteora_config_key |-> 0, launch_signature |-> 0]
    /\ expired = FALSE
    /\ req = [r \in Slots |-> IdleReq]
    /\ resp = NoResult
    /\ started = 0
    /\ payouts = [i \in 1..MaxStarts |-> 0]
    /\ file = [presale |-> presale, participants |-> participants]
    /\ saveTimeout = FALSE

\* calculateFeeShares(presale_id) is called once; slot 1 keeps the returned list
FeeCalculate ==
    LET calc == calculateFeeShares(presale, participants)
    IN  /\ started = 0
        /\ started' = 1
        /\ participants' = calc.participants
        /\ req' = [req EXCEPT ![1].feeShares = calc.feeShares]
        /\ IF calc.feeShares # <<>> THEN savePresaleDb ELSE NoSave
        /\ UNCHANGED <<presale, expired, resp, payouts>>

FeeNext == FeeCalculate

SpecFee == FeeInit /\ [][FeeNext]_vars

\* ------------------------------------- launchPresaleToken on a loaded ledger
\* The ledger as loadPresaleDb reads it from the database file: counted
\* participants, and a presale whose total_sol is whatever the file holds, not
\* necessarily the sum of their amounts.  The launch route is then called.
LoadedLedgers == {parts \in FeeLedgers : \A i \in DOMAIN parts : Counted(parts[i])}

LoadedInit ==
    /\ participants \in LoadedLedgers
    /\ \E status \in {"active", "launched", "failed", "refunding"},
          total \in 1..FeeMaxAmount, missing \in 0..1 :
         presale = [status |-> status, creator_wallet |-> Creator,
                    min_sol_per_wallet |-> 1, max_sol_per_wallet |-> FeeMaxSol,
                    target_participants |-> Len(participants) + missing,
                    total_sol |-> total,
                    participant_count |-> Len(participants),
                    token_mint |-> 0, meteora_config_key |-> 0, launch_signature |-> 0]
    /\ expired = FALSE
    /\ req = [r \in Slots |-> IdleReq]
    /\ resp = NoResult
    /\ started = 0
    /\ payouts = [i \in 1..MaxStarts |-> 0]
    /\ file = [presale |-> presale, participants |-> participants]
    /\ saveTimeout = FALSE

LoadedNext == \E r \in Slots, force \in BOOLEAN : LaunchStart(r, force)

SpecLoaded == LoadedInit /\ [][LoadedNext]_vars

\* ------------------------------------ the database file and the process
\* The launches of a full presale, with the timer of savePresaleDb firing and
\* the process crashing and starting again at any point.
\* The timer set by savePresaleDb fires: the cache is written to the file
SaveFires ==
    /\ saveTimeout
    /\ saveTimeout' = FALSE
    /\ file' = [presale |-> presale, participants |-> participants]
    /\ resp' = NoResult
    /\ UNCHANGED <<presale, participants, expired, req, payouts, started>>

\* The process dies and starts again: the cache, the timer and the requests in
\* flight are gone, and the first loadPresaleDb reads the file
Crash ==
    /\ presale' = file.presale
    /\ participants' = file.participants
    /\ saveTimeout' = FALSE
    /\ req' = [r \in Slots |-> IdleReq]
    /\ resp' = Result("reload", TRUE, "")
    /\ UNCHANGED <<file, expired, payouts, started>>

\* The ledgers of a full presale: every record counted
StoreLedgers ==
    {parts \in LoadedLedgers : \A i \in DOMAIN parts : parts[i].amount_sol <= MaxAmount}

StoreInit ==
    /\ participants \in StoreLedgers
    /\ presale = [status |-> "active", creator_wallet |-> Creator,
                  min_sol_per_wallet |-> 1, max_sol_per_wallet |-> MaxAmount,
                  target_participants |-> Len(participants),
                  total_sol |-> SumAmounts(participants),
                  participant_count |-> Len(participants),
                  token_mint |-> 0, meteora_config_key |-> 0, launch_signature |-> 0]
    /\ expired = FALSE
    /\ req = [r \in Slots |-> IdleReq]
    /\ resp = NoResult
    /\ started = 0
    /\ payouts = [i \in 1..MaxStarts |-> 0]
    /\ file = [presale |-> presale, participants |-> participants]
    /\ saveTimeout = FALSE

StoreNext ==
    \/ \E r \in Slots, force \in BOOLEAN : LaunchStart(r, force)
    \/ \E r \in Slots, o \in ServiceOutcomes : LaunchMetadata(r, o)
    \/ \E r \in Slots, o \in ConfigOutcomes : LaunchConfig(r, o)
    \/ \E r \in Slots, o \in ConfigOutcomes : LaunchConfigBasic(r, o)
    \/ \E r \in Slots, o \in ServiceOutcomes : LaunchTx(r, o)
    \/ \E r \in Slots, o \in SendOutcomes : LaunchSend(r, o)
    \/ SaveFires
    \/ Crash

SpecStore == StoreInit /\ [][StoreNext]_vars

\* ------------------------------------------- joins presenting any signature
\* The joins, settlements and launch steps of Spec, with a join free to present
\* any signature, its own deposit's or another's; every deposit is of the
\* presale's minimum amount, so a transaction verifies for whoever presents it.
SigNext ==
    \/ \E r \in Slots, w \in Wallets, s \in Signatures :
         JoinStart(r, w, presale.min_sol_per_wallet, s)
    \/ \E r \in Slots, o \in VerifyOutcomes : JoinRejected(r, o)
    \/ \E r \in Slots, o \in VerifyOutcomes : JoinConfirm(r, o)
    \/ \E r \in Slots, o \in ServiceOutcomes : LaunchMetadata(r, o)
    \/ \E r \in Slots, o \in ConfigOutcomes : LaunchConfig(r, o)
    \/ \E r \in Slots, o \in ConfigOutcomes : LaunchConfigBasic(r, o)
    \/ \E r \in Slots, o \in ServiceOutcomes : LaunchTx(r, o)
    \/ \E r \in Slots, o \in SendOutcomes : LaunchSend(r, o)
    \/ \E r \in Slots, w \in Wallets : RefundStart(r, w)
    \/ \E r \in Slots, o \in SettleOutcomes : RefundFailed(r, o)
    \/ \E r \in Slots : RefundSettled(r)

SpecSig == Init /\ [][SigNext]_vars

\* =================================================================== claims
LaunchPcs == {"metadata", "config", "config_basic", "launch_tx", "launch_send"}

\* Request r returns in this step
Returns(r) == req[r].pc # "idle" /\ req'[r].pc = "idle"

C2_CountWithinTarget == presale.participant_count <= presale.target_participants

\* C3: once the status has been failed or refunding, no step sets it to launched.
C3_FailedNeverLaunched ==
    [][presale.status \in {"failed", "refunding"} => presale'.status # "launched"]_vars

\* C4: for a presale with at least one confirmed, not refunded, not withdrawn
\* participant and total_sol > 0, the bps of the list calculateFeeShares
\* returns sum to exactly 10000.
C4_FeeSharesSumTo10000 ==
    (started = 1 /\ presale.participant_count >= 1 /\ presale.total_sol > 0)
    => SumBps(req[1].feeShares) = TOTAL_BPS

\* calculateFeeShares has run for two or more participants whose floor shares
\* leave a remainder, which the last entry of the list received
C4_Witness ==
    /\ started = 1
    /\ Len(req[1].feeShares) >= 3
    /\ LET stored == getPresaleParticipants(participants)
           last == Len(req[1].feeShares)
       IN  req[1].feeShares[last].bps > stored[Len(stored)].fee_share_bps

\* C5: at most one settlement transfer is ever confirmed for a participant record.
C5_OnePayoutPerRecord == \A i \in DOMAIN payouts : payouts[i] <= 1

\* C6: launchPresaleToken never runs in two requests at the same time.
C6_OneLaunchAtATime == Cardinality({r \in Slots : req[r].pc \in LaunchPcs}) <= 1

\* C7: the status never moves backward: launched stays launched, and failed or
\* refunding never becomes active again.
C7_StatusMonotonic ==
    [][/\ presale.status = "launched" => presale'.status = "launched"
       /\ presale.status \in {"failed", "refunding"} => presale'.status # "active"]_vars

\* C8: with status active and a token_mint persisted by an earlier attempt, a
\* launch call does not send the create-token-info request again.
C8_NoSecondMetadataCall ==
    [][\A r \in Slots :
          (presale.status = "active" /\ presale.token_mint # 0 /\ req[r].pc # "metadata")
          => req'[r].pc # "metadata"]_vars

\* C9: a launch attempt that fails at fee-share configuration, at the creation
\* of the launch transaction or at its submission leaves the presale active
\* with the token_mint of this attempt stored, and with its meteora_config_key
\* stored once the configuration had succeeded.
C9_FailureKeepsIdentifiers ==
    [][\A r \in Slots :
          (Returns(r) /\ resp'.launchResult.step \in {"fee_share", "launch_tx", "launch_send"})
          => /\ presale'.status = "active"
             /\ presale'.token_mint = req[r].tokenMint
             /\ (resp'.launchResult.step \in {"launch_tx", "launch_send"}
                   => presale'.meteora_config_key = req[r].meteoraConfigKey)]_vars

\* C10: a launch attempt whose create-token-info call fails leaves an active
\* presale active and changes neither participant_count nor total_sol; nor
\* does the entry of a launch call up to that request.
C10_MetadataFailureKeepsPresale ==
    [][\A r \in Slots :
          ((req[r].pc = "metadata" /\ Returns(r))
             \/ (req[r].pc = "idle" /\ req'[r].pc = "metadata" /\ req'[r].op = "launch"))
          => /\ presale.status = "active" => presale'.status = "active"
             /\ presale'.participant_count = presale.participant_count
             /\ presale'.total_sol = presale.total_sol]_vars

\* The launch route has just answered with a failure at step metadata for an
\* active presale that has a participant
C10_Witness ==
    /\ resp.op = "launch" /\ ~resp.success /\ resp.launchResult.step = "metadata"
    /\ presale.status = "active"
    /\ presale.participant_count >= 1

\* The participation of the wallet is resolved: it has a refunded or withdrawn
\* record and no record that is neither
Resolved(parts, wallet) ==
    /\ \E i \in DOMAIN parts : parts[i].wallet = wallet /\ ~Unresolved(parts[i])
    /\ getParticipantByWallet(parts, wallet) = 0

\* C11: a settlement request for a wallet whose participation is already
\* refunded or withdrawn is answered already-refunded or already-withdrawn (the
\* answers that carry the settlement signature), and changes neither the
\* totals nor the transfers made.
C11_ResolvedWalletAlreadySettled ==
    [][(/\ resp'.op = "refund" /\ resp'.wallet # None
        /\ presale.status # "launched"
        /\ Resolved(participants, resp'.wallet))
       => /\ resp'.error \in {"already_refunded", "already_withdrawn"}
          /\ presale'.total_sol = presale.total_sol
          /\ presale'.participant_count = presale.participant_count
          /\ payouts' = payouts]_vars

\* C12: a request that arrives at a presale with status active whose expires_at
\* has passed treats it as failed: it does not go on to verify a join, to a
\* taxed withdrawal, or into the launch sequence.
C12_ExpiredTreatedAsFailed ==
    [][\A r \in Slots :
          (presale.status = "active" /\ expired /\ req[r].pc = "idle" /\ req'[r].pc # "idle")
          => /\ req'[r].pc \notin LaunchPcs
             /\ req'[r].pc # "verify"
             /\ ~(req'[r].pc = "settle" /\ req'[r].isActivePresale)]_vars

\* C13: a join whose deposit verification ends in anything but a verified
\* deposit (not found, failed on chain, escrow not credited, amount mismatch,
\* chain-reader error) is rejected and changes no participant and no presale field.
C13_UnverifiedJoinRejected ==
    [][\A r \in Slots :
          (/\ req[r].op = "join" /\ req[r].pc = "verify" /\ req'[r].pc # "verify"
           /\ resp'.verification # "verified")
          => /\ resp'.op = "join" /\ ~resp'.success
             /\ participants' = participants
             /\ presale' = presale]_vars

\* C14: a join goes past the precondition checks only if the presale is active
\* and not expired, participant_count is below target_participants, the wallet
\* is not the creator and has no unresolved participation, and the amount is
\* within [min_sol_per_wallet, max_sol_per_wallet]; a join rejected by these
\* checks changes no participant record, total_sol or participant_count.
C14_PreconditionRejectsUnchanged ==
    [][/\ \A r \in Slots :
            (req[r].pc = "idle" /\ req'[r].pc = "verify")
            => /\ presale.status = "active" /\ ~expired
               /\ presale.participant_count < presale.target_participants
               /\ req'[r].wallet # presale.creator_wallet
               /\ getParticipantByWallet(participants, req'[r].wallet) = 0
               /\ req'[r].amount >= presale.min_sol_per_wallet
               /\ req'[r].amount <= presale.max_sol_per_wallet
       /\ (resp'.op = "join" /\ ~resp'.success /\ resp'.verification = "")
            => /\ participants' = participants
               /\ presale'.total_sol = presale.total_sol
               /\ presale'.participant_count = presale.participant_count]_vars

\* A join has just been rejected because the wallet already holds a participation
C14_Witness ==
    /\ resp.op = "join" /\ ~resp.success /\ resp.error = "already_joined"
    /\ presale.participant_count >= 1

\* C15: when the fee shares computed for the presale do not sum to 10000 bps, a
\* call of launchPresaleToken returns failure, sends no launch-service or chain
\* request, and changes none of status, token_mint, meteora_config_key and
\* launch_signature.
C15_BadTotalAbortsLaunch ==
    [][(SumBps(calculateFeeShares(presale, participants).feeShares) # TOTAL_BPS)
       => /\ \A r \in Slots : req[r].pc = "idle" => req'[r].pc \notin LaunchPcs
          /\ resp'.op = "launch" /\ ~resp'.success
          /\ presale'.status = presale.status
          /\ presale'.token_mint = presale.token_mint
          /\ presale'.meteora_config_key = presale.meteora_config_key
          /\ presale'.launch_signature = presale.launch_signature]_vars

\* A launch call on an active presale has just been refused because its fee
\* shares do not sum to 10000
C15_Witness ==
    /\ resp.op = "launch" /\ ~resp.success /\ resp.error = "fee_share_total"
    /\ presale.status = "active"
    /\ \A r \in Slots : req[r].pc = "idle"

\* C16: on a launched presale launchPresaleToken is refused with force and
\* without it, starts no launch step and changes nothing; with force = false a
\* presale below its target is refused; and force changes the outcome of the
\* entry checks only for a presale below its target.
C16_ForceSkipsOnlyFullness ==
    [][/\ presale.status = "launched"
            => /\ \A force \in BOOLEAN :
                    /\ LaunchEntry(presale, participants, force).outcome = "already_launched"
                    /\ LaunchEntry(presale, participants, force).participants = participants
               /\ \A r \in Slots : req[r].pc = "idle" => req'[r].pc \notin LaunchPcs
               /\ (resp'.op = "launch" /\ req' = req)
                    => presale' = presale /\ participants' = participants
       /\ presale.participant_count < presale.target_participants
            => LaunchEntry(presale, participants, FALSE).outcome
                  \in {"already_launched", "not_full"}
       /\ presale.participant_count >= presale.target_participants
            => LaunchEntry(presale, participants, TRUE)
                  = LaunchEntry(presale, participants, FALSE)
       /\ LaunchEntry(presale, participants, TRUE).outcome = "proceed"
            => /\ presale.status # "launched"
               /\ getPresaleParticipants(participants) # <<>>]_vars

\* The launch route has just refused a call on a launched presale
C16_Witness ==
    /\ resp.op = "launch" /\ ~resp.success /\ resp.error = "already_launched"
    /\ presale.status = "launched"

\* C17: when the auto-launch triggered by the join that filled the presale
\* returns failure or throws, the join answers success, and the failure changes
\* no participant record nor total_sol nor participant_count.
C17_JoinSurvivesLaunchFailure ==
    [][\A r \in Slots :
          (/\ req[r].op = "join" /\ req[r].pc \in LaunchPcs /\ Returns(r)
           /\ ~resp'.launchResult.success)
          => /\ resp'.op = "join" /\ resp'.success
             /\ participants' = participants
             /\ presale'.total_sol = presale.total_sol
             /\ presale'.participant_count = presale.participant_count]_vars

\* A join has just answered success after its auto-launch failed, and the
\* presale is still full
C17_Witness ==
    /\ resp.op = "join" /\ resp.success
    /\ resp.launchResult.called /\ ~resp.launchResult.success
    /\ presale.participant_count >= presale.target_participants
    /\ \E i \in DOMAIN participants : Counted(participants[i])

\* C18: a join whose confirmation brings participant_count to at least
\* target_participants while the presale is active calls launchPresaleToken in
\* the same request, and sends no response before that call has returned.
C18_FillingJoinLaunches ==
    [][\A r \in Slots :
          (/\ req[r].op = "join" /\ req[r].pc = "verify" /\ req'[r].pc # "verify"
           /\ presale'.participant_count = presale.participant_count + 1
           /\ presale'.participant_count >= presale'.target_participants
           /\ presale'.status = "active")
          => \/ /\ req'[r].op = "join" /\ req'[r].pc \in LaunchPcs
                /\ resp'.op = "none"
             \/ /\ resp'.op = "join" /\ resp'.launchResult.called]_vars

\* The join that filled the presale is inside the launch sequence, its response
\* not yet sent
C18_Witness ==
    \E r \in Slots :
        /\ req[r].op = "join" /\ req[r].pc = "metadata"
        /\ presale.status = "active"
        /\ presale.participant_count >= presale.target_participants
        /\ resp.op = "none"

C20_MarksMatchPresaleState ==
    [][/\ \A i \in DOMAIN participants :
            (participants'[i].withdrawn /\ ~participants[i].withdrawn)
            => presale.status = "active" /\ ~expired
       /\ \A i \in DOMAIN participants :
            (participants'[i].refunded /\ ~participants[i].refunded)
            => \/ presale.status \in {"failed", "refunding"}
               \/ presale.status = "active" /\ expired
       /\ presale.status = "launched"
            => \A r \in Slots : req[r].pc = "idle" => req'[r].pc # "settle"]_vars

\* C21: every wallet has at most one participant record that is neither
\* refunded nor withdrawn, and addParticipant returns null and adds nothing for
\* a wallet that has one.
C21_OneUnresolvedRecordPerWallet ==
    \A w \in Wallets :
        /\ Cardinality({i \in DOMAIN participants :
                           participants[i].wallet = w /\ Unresolved(participants[i])}) <= 1
        /\ getParticipantByWallet(participants, w) # 0
             => /\ addParticipantReturnsNull(participants, w)
                /\ \A a \in 1..MaxAmount, s \in Signatures :
                       addParticipant(participants, w, a, s) = participants

\* Two joins of one wallet were in flight; the second has just been refused by
\* addParticipant, and the wallet has its one unresolved record
C21_Witness ==
    /\ resp.op = "join" /\ ~resp.success /\ resp.error = "add_failed"
    /\ \E i \in DOMAIN participants : Unresolved(participants[i])

\* C22: when a wallet whose participation was withdrawn joins again, the join
\* adds a new record that is confirmed and counted in total_sol and
\* participant_count; the withdrawn record is left as it is, and the fee-share
\* list of the presale names the wallet once.
C22_RejoinAfterWithdrawal ==
    [][\A r \in Slots :
          (/\ req[r].op = "join" /\ req[r].pc = "verify" /\ req'[r].pc # "verify"
           /\ resp'.verification \in {"verified", "error"}
           /\ Resolved(participants, req[r].wallet))
          => /\ Len(participants') = Len(participants) + 1
             /\ participants'[Len(participants')].wallet = req[r].wallet
             /\ Counted(participants'[Len(participants')])
             /\ presale'.total_sol = presale.total_sol + req[r].amount
             /\ presale'.participant_count = presale.participant_count + 1
             /\ \A i \in DOMAIN participants :
                   ~Unresolved(participants[i]) => participants'[i] = participants[i]
             /\ LET list == calculateFeeShares(presale', participants').feeShares
                IN  Cardinality({k \in DOMAIN list : list[k].wallet = req[r].wallet}) = 1]_vars

\* A wallet has a withdrawn record and, after it, a record that is counted
C22_Witness ==
    \E i, j \in DOMAIN participants :
        /\ i < j
        /\ participants[i].wallet = participants[j].wallet
        /\ participants[i].withdrawn
        /\ Counted(participants[j])
        /\ presale.participant_count >= 1

\* C23: no participant record is ever both refunded and withdrawn, and a record
\* whose refunded or withdrawn flag is true keeps that flag in every later state
\* (records are never removed from the ledger).
C23_FlagsExclusiveAndPermanent ==
    /\ [](\A i \in DOMAIN participants :
             ~(participants[i].refunded /\ participants[i].withdrawn))
    /\ [][\A i \in DOMAIN participants :
             /\ i \in DOMAIN participants'
             /\ participants[i].refunded => participants'[i].refunded
             /\ participants[i].withdrawn => participants'[i].withdrawn]_vars

\* A refund settlement has completed on a wallet whose only record was already
\* withdrawn by an earlier settlement: the record stays withdrawn, not refunded
C23_Witness ==
    /\ resp.op = "refund" /\ resp.success /\ resp.error = "refund"
    /\ \A i \in DOMAIN participants : ~participants[i].refunded
    /\ \E i \in DOMAIN participants : participants[i].withdrawn

\* C24: every presale in the store has target_participants in 1..68,
\* duration_minutes in {10, 20, 30}, a non-empty launch-fee signature, status
\* active, total_sol 0, participant_count 0 and expires_at equal to created_at
\* plus its duration (in this specification nothing but creation touches a
\* presale); and a create request that is rejected leaves the store as it was,
\* while one that adds a presale passed the validation of its body.
C24_CreatedPresaleWellFormed ==
    /\ [](\A i \in DOMAIN presale :
            /\ presale[i].target_participants \in 1..68
            /\ presale[i].duration_minutes \in {10, 20, 30}
            /\ presale[i].launch_fee_signature # ""
            /\ presale[i].status = "active"
            /\ presale[i].total_sol = 0
            /\ presale[i].participant_count = 0
            /\ presale[i].expires_at
                 = presale[i].created_at + presale[i].duration_minutes * 60000)
    /\ [][/\ (resp'.op = "create" /\ ~resp'.success) => presale' = presale
          /\ presale' # presale
               => /\ Len(presale') = Len(presale) + 1 /\ Tail(presale') = presale
                  /\ resp'.op = "create" /\ resp'.success
                  /\ \E r \in Slots :
                        /\ req[r].pc = "verify_fee" /\ req'[r].pc = "idle"
                        /\ CreateCheck(req[r].body) = "verify_fee"]_vars

\* The store holds two presales, one with a default and one with a given
\* duration, and the last request was rejected
C24_Witness ==
    /\ Len(presale) = 2
    /\ presale[1].duration_minutes # presale[2].duration_minutes
    /\ resp.op = "create" /\ ~resp.success

\* C25: a presale whose status is launched has its token_mint, its
\* meteora_config_key and its launch_signature all set.
C25_LaunchedHasIdentifiers ==
    presale.status = "launched"
        => /\ presale.token_mint # 0
           /\ presale.meteora_config_key # 0
           /\ presale.launch_signature # 0

\* C26: the first entry of the list calculateFeeShares returns is the creator's
\* wallet with exactly 500 bps, whatever remainder the rounding adjustment hands
\* out.
C26_CreatorFirstWith500 ==
    (started = 1 /\ req[1].feeShares # <<>>)
    => /\ req[1].feeShares[1].wallet = presale.creator_wallet
       /\ req[1].feeShares[1].bps = 500

\* calculateFeeShares has returned a list for three participants whose floor
\* shares fall short of 9500, so a remainder was handed out
C26_Witness ==
    /\ started = 1
    /\ Len(req[1].feeShares) = 4
    /\ req[1].feeShares[1] = [wallet |-> Creator, bps |-> 500]
    /\ SumBps([k \in 1..3 |-> [bps |-> getPresaleParticipants(participants)[k].fee_share_bps]])
          < 9500

\* C27: after calculateFeeShares each counted record's stored fee_share_bps is
\* the bps the returned list gives its wallet, so the creator's bps plus the
\* stored fee_share_bps of the counted records is 10000.
C27_StoredSharesMatchList ==
    (started = 1 /\ req[1].feeShares # <<>>)
    => LET active == getPresaleParticipants(participants)
       IN  /\ \A k \in DOMAIN active :
                 \E j \in DOMAIN req[1].feeShares :
                    /\ req[1].feeShares[j].wallet = active[k].wallet
                    /\ req[1].feeShares[j].bps = active[k].fee_share_bps
           /\ req[1].feeShares[1].bps
                + SumBps([k \in DOMAIN active |-> [bps |-> active[k].fee_share_bps]]) = 10000

\* C30: in the returned list the participants follow the creator in join order;
\* each but the last has exactly floor(amount_sol * 9500 / total_sol) bps and the
\* last has its floor share plus the whole shortfall from 9500.
C30_FloorSharesRemainderToLast ==
    (started = 1 /\ req[1].feeShares # <<>>)
    => LET active == getPresaleParticipants(participants)
           n == Len(active)
           floors == [k \in 1..n |->
                        [bps |-> (active[k].amount_sol * 9500) \div presale.total_sol]]
       IN  /\ Len(req[1].feeShares) = n + 1
           /\ \A k \in 1..n :
                 /\ req[1].feeShares[k + 1].wallet = active[k].wallet
                 /\ req[1].feeShares[k + 1].bps
                      = IF k < n THEN floors[k].bps
                        ELSE floors[k].bps + (9500 - SumBps(floors))

\* C28: a launch attempt that fails after it reached an external step (the
\* metadata call, a fee-share config call, the creation or the submission of the
\* launch transaction), by an error answer or by a thrown error, returns a
\* result whose step field names that step.
C28_FailureNamesStep ==
    [][\A r \in Slots :
          (/\ req[r].pc \in LaunchPcs /\ Returns(r)
           /\ resp'.launchResult.called /\ ~resp'.launchResult.success)
          => resp'.launchResult.step =
                CASE req[r].pc = "metadata" -> "metadata"
                  [] req[r].pc \in {"config", "config_basic"} -> "fee_share"
                  [] req[r].pc = "launch_tx" -> "launch_tx"
                  [] req[r].pc = "launch_send" -> "launch_send"]_vars

\* C29: once launchPresaleToken has returned success for the presale (only its
\* STEP 4 writes launch_signature, and it force-saves and returns success in the
\* same step), the presale that a restart after a crash loads from the file
\* never has status active.
C29_LaunchSurvivesCrash ==
    (resp.op = "reload" /\ presale.launch_signature # 0) => presale.status # "active"

\* C31: within one launch attempt the external steps come in the order metadata
\* registration, fee-share configuration, creation of the launch transaction,
\* submission of the launch transaction; a step starts only after the one
\* before it succeeded (for the creation of the launch transaction: the
\* fee-share configuration, with its config transactions, went through); and
\* the attempt sets the status to launched only from the submission step.
C31_StepsInOrder ==
    [][\A r \in Slots :
          req'[r].pc # req[r].pc
          => /\ req'[r].pc = "metadata" => req[r].pc \in {"idle", "verify"}
             /\ req'[r].pc = "config" => req[r].pc = "metadata"
             /\ req'[r].pc = "config_basic" => req[r].pc = "config"
             /\ req'[r].pc = "launch_tx"
                  => /\ req[r].pc \in {"config", "config_basic"}
                     /\ resp'.warning = ""
             /\ req'[r].pc = "launch_send" => req[r].pc = "launch_tx"
             /\ (req[r].pc \in LaunchPcs /\ presale'.status = "launched"
                   /\ presale.status # "launched")
                  => req[r].pc = "launch_send"]_vars

\* C32: within one launch attempt the fee-share configuration is requested at
\* most twice: the reduced request follows only the full request, and after it
\* the attempt either goes on to the launch transaction or ends, with step
\* fee_share when the reduced request was rejected too; the metadata call and the
\* creation of the launch transaction are left for a later step or the end of
\* the attempt, never repeated.
C32_NoRetryLoop ==
    [][\A r \in Slots :
          req'[r].pc # req[r].pc
          => /\ req'[r].pc = "config_basic" => req[r].pc = "config"
             /\ req[r].pc = "metadata" => req'[r].pc \in {"config", "idle"}
             /\ req[r].pc = "config" => req'[r].pc \in {"config_basic", "launch_tx", "idle"}
             /\ req[r].pc = "config_basic"
                  => /\ req'[r].pc \in {"launch_tx", "idle"}
                     /\ (req'[r].pc = "idle" /\ resp'.launchResult # CaughtResult)
                          => /\ ~resp'.launchResult.success
                             /\ resp'.launchResult.step = "fee_share"
             /\ req[r].pc = "launch_tx" => req'[r].pc \in {"launch_send", "idle"}]_vars

\* The reduced request was rejected as well: the attempt ended at step fee_share
C32_Witness ==
    /\ resp.launchResult.called /\ ~resp.launchResult.success
    /\ resp.launchResult.step = "fee_share"

\* C33: a record gets its withdrawn or refunded flag, and total_sol and
\* participant_count go down, only in the step in which a settlement transfer
\* was confirmed and the request answers success; a settlement request that ends
\* because the escrow cannot cover the transfer or because the transfer threw
\* answers failure and leaves every record, total_sol and participant_count as
\* they were.
C33_MarkedOnlyAfterConfirmedTransfer ==
    [][/\ (\/ \E i \in DOMAIN participants :
                 \/ participants'[i].withdrawn # participants[i].withdrawn
                 \/ participants'[i].refunded # participants[i].refunded
           \/ presale'.total_sol < presale.total_sol
           \/ presale'.participant_count < presale.participant_count)
          => /\ payouts' # payouts
             /\ resp'.op = "refund" /\ resp'.success
             /\ \E r \in Slots : req[r].pc = "settle" /\ Returns(r)
       /\ \A r \in Slots :
            (req[r].pc = "settle" /\ Returns(r) /\ ~resp'.success)
            => /\ resp'.op = "refund"
               /\ resp'.error \in {"insufficient_escrow", "throws"}
               /\ participants' = participants
               /\ presale'.total_sol = presale.total_sol
               /\ presale'.participant_count = presale.participant_count
               /\ payouts' = payouts]_vars

\* A settlement ended without a confirmed transfer while the wallet's deposit
\* is still counted
C33_Witness ==
    /\ resp.op = "refund" /\ ~resp.success
    /\ resp.error \in {"insufficient_escrow", "throws"}
    /\ presale.participant_count > 0
    /\ \E i \in DOMAIN participants : Counted(participants[i])

\* C34: a refund request that settles on a failed presale (one that was failed
\* or refunding when the request checked it, or active and past expiry and
\* flipped by the request itself) and answers success leaves the presale in
\* status refunding: the first such refund moves it there and every later one
\* finds and leaves it there.
C34_RefundLeavesRefunding ==
    [][\A r \in Slots :
          (/\ req[r].op = "refund" /\ req[r].pc = "settle" /\ ~req[r].isActivePresale
           /\ Returns(r) /\ resp'.success)
          => presale'.status = "refunding"]_vars

\* C35: a participant record becomes confirmed only in a step that finds its
\* presale active and not past its deadline; a join that passed its checks
\* earlier does not confirm into a presale that has meanwhile expired or become
\* failed, refunding or launched.
C35_ConfirmedOnlyWhileActive ==
    [][(\E i \in DOMAIN participants' :
            /\ participants'[i].confirmed
            /\ (i \in DOMAIN participants => ~participants[i].confirmed))
          => /\ presale.status = "active"
             /\ ~expired]_vars

\* C38: a deposit transaction signature backs at most one confirmed record: no
\* two confirmed records carry the same tx_signature, whether they belong to
\* one wallet that withdrew and joined again or to two wallets.
C38_SignatureBacksOneRecord ==
    \A i, j \in DOMAIN participants :
        (i # j /\ participants[i].confirmed /\ participants[j].confirmed)
        => participants[i].tx_signature # participants[j].tx_signature

\* C36: in the step in which a launch attempt sets the status to launched, the
\* wallets of the fee-share list the attempt submitted to the launch service are
\* exactly the creator and the wallets of the records that are then confirmed
\* and neither refunded nor withdrawn.
C36_LaunchedSharesMatchCounted ==
    [][\A r \in Slots :
          (/\ req[r].pc = "launch_send" /\ Returns(r)
           /\ presale.status # "launched" /\ presale'.status = "launched")
          => {req[r].feeShares[k].wallet : k \in DOMAIN req[r].feeShares}
               = {presale'.creator_wallet}
                 \cup {participants'[i].wallet :
                         i \in {j \in DOMAIN participants' : Counted(participants'[j])}}]_vars

\* C37: in a step that sets the status of a presale to launched, through the
\* auto-launch of a join, the launch route (forced or not) or finalize_launch,
\* the presale has at least one counted participant: a record that is confirmed
\* and neither refunded nor withdrawn.
C37_LaunchedHasParticipants ==
    [][(presale.status # "launched" /\ presale'.status = "launched")
          => getPresaleParticipants(participants') # <<>>]_vars

\* C39: once the status of a presale is launched, no step changes its total_sol
\* or participant_count or the confirmed, refunded or withdrawn flag of any of
\* its records; this includes the completion of a withdrawal or refund that
\* passed its status check before the launch finished.
C39_LaunchedIsFrozen ==
    [][presale.status = "launched"
          => /\ presale'.total_sol = presale.total_sol
             /\ presale'.participant_count = presale.participant_count
             /\ \A i \in DOMAIN participants :
                  /\ participants'[i].confirmed = participants[i].confirmed
                  /\ participants'[i].refunded = participants[i].refunded
                  /\ participants'[i].withdrawn = participants[i].withdrawn]_vars

=============================================================================
